---- MODULE Spec2Model ----
(***************************************************************************)
(* Model of the two history-mining tools of package-history                *)
(* (src/index.js): the keyword tracker (lines 1-210) and the manifest      *)
(* version tracker (lines 212-385).  The git executable is the             *)
(* environment: each of its answers is drawn from a small set.             *)
(* Text is a sequence of one-character strings.                            *)
(***************************************************************************)
EXTENDS Integers, Sequences, FiniteSets, TLC

\* ------------------------------------------------------------------ bounds
MaxCommits == 2      \* commits git log returns to the keyword tracker
MaxVCommits == 3     \* commits git log returns for one manifest
MaxManifests == 1    \* manifests git ls-files discovers
MaxRows == 2         \* records of a free-standing result list
MaxField == 2        \* characters of a free-standing line field

NL == "\n"
QUOTE == "\""
COMMA == ","

\* ------------------------------------------------------------ text helpers
Whitespace == {" ", "\t", "\r", NL}

\* index of the first occurrence of character c in s, 0 if none
IndexOf(s, c) ==
    IF \E i \in 1..Len(s) : s[i] = c
    THEN CHOOSE i \in 1..Len(s) : s[i] = c /\ \A j \in 1..(i - 1) : s[j] # c
    ELSE 0

RECURSIVE Split(_, _)
\* String.prototype.split(sep) for a one-character separator
Split(s, sep) ==
    LET i == IndexOf(s, sep) IN
    IF i = 0 THEN <<s>>
    ELSE <<SubSeq(s, 1, i - 1)>> \o Split(SubSeq(s, i + 1, Len(s)), sep)

\* String.prototype.includes
Includes(s, sub) ==
    \E i \in 0..(Len(s) - Len(sub)) : SubSeq(s, i + 1, i + Len(sub)) = sub

\* String.prototype.trim
Trim(s) ==
    LET keep == {i \in 1..Len(s) : s[i] \notin Whitespace} IN
    IF keep = {} THEN <<>>
    ELSE SubSeq(s, CHOOSE i \in keep : \A j \in keep : i <= j,
                   CHOOSE i \in keep : \A j \in keep : j <= i)

RECURSIVE Join(_, _)
\* Array.prototype.join(sep) over texts
Join(rows, sep) ==
    IF rows = <<>> THEN <<>>
    ELSE IF Len(rows) = 1 THEN rows[1]
    ELSE rows[1] \o sep \o Join(Tail(rows), sep)

RECURSIVE ReplaceAll(_, _, _)
\* String.prototype.replace(/c/g, by)
ReplaceAll(s, c, by) ==
    IF s = <<>> THEN <<>>
    ELSE (IF Head(s) = c THEN by ELSE <<Head(s)>>) \o ReplaceAll(Tail(s), c, by)

\* ------------------------------------------------- keyword tracker: inputs
FileA == <<"a", ".", "j", "s", "o", "n">>
FileB == <<"b", ".", "j", "s", "o", "n">>
AllFiles == <<FileA, FileB>>   \* in git's path order
Files == {AllFiles[i] : i \in 1..Len(AllFiles)}
Patterns == {<<"*", ".", "j", "s", "o", "n">>, FileA}
Keywords == {<<"k", "w">>}

\* what `git show <commit>:<file>` may print
ShowOutputs ==
    { <<>>,
      <<" ", "k", "w", "1", " ", NL, "k", NL>>,
      <<"k", "w", "1", NL, "a", "k", "w", "2", " ", NL>> }

VARIABLES
    tool,                     \* which of the two programs runs
    pc,                       \* position of the main async function
    exitCode,                 \* set holding the process exit status once ended
    filePattern, keyword, dedupe,   \* options (line 23)
    workingTree,              \* files present under process.cwd()
    commits,                  \* result of getCommits
    index,                    \* position of the commit loop (line 105)
    changedFiles,             \* git diff-tree output of the current commit
    files,                    \* matched files still to process (line 110)
    results,                  \* line 102
    lastRecordedLinePerFile,  \* line 103
    observed,                 \* log of the git show answers of this run
    lastEvent,                \* outcome of the last external command
    csvFile, jsonFile,        \* files written by outputResults
    packageJSONFiles,         \* manifests found by findAllPackageJSONFiles
    mIndex,                   \* position of the manifest loop (line 372)
    vcommits,                 \* commits of the current manifest (line 314)
    vIndex,                   \* position of the commit loop (line 325)
    outputVersionLog,         \* line 322
    output,                   \* line 370
    outputFile,               \* file written by saveOutputToFile
    fetched                   \* log of the git show answers for one manifest

kvars == <<filePattern, keyword, dedupe, workingTree, commits, index,
           changedFiles, files, results, lastRecordedLinePerFile, observed,
           csvFile, jsonFile>>

vvars == <<packageJSONFiles, mIndex, vcommits, vIndex, outputVersionLog,
           output, outputFile, fetched>>

vars == <<tool, pc, exitCode, lastEvent, kvars, vvars>>

NoExit == {}
\* the exit status c of an ended process
Exited(c) == {c}
NotWritten == [written |-> FALSE, content |-> <<>>]
Written(c) == [written |-> TRUE, content |-> c]

Digits == <<"1", "2", "3", "4", "5", "6", "7", "8", "9">>
\* the %ad field of the i-th commit of the log (one distinct date per commit)
DateOf(i) == <<"d", Digits[i]>>

\* minimatch of the glob package, for paths without a directory and patterns
\* that are a literal path or a star followed by a literal suffix
Minimatch(file, pattern) ==
    IF pattern # <<>> /\ Head(pattern) = "*"
    THEN LET suffix == Tail(pattern) IN
         /\ Len(file) >= Len(suffix)
         /\ SubSeq(file, Len(file) - Len(suffix) + 1, Len(file)) = suffix
    ELSE file = pattern

\* glob.sync(pattern, {cwd, matchBase: true}): matching files that exist in cwd
GlobSync(pattern, cwd) == {f \in cwd : Minimatch(f, pattern)}

SeqOf(set) == SelectSeq(AllFiles, LAMBDA f : f \in set)

\* lines 62-67 of getFilesInCommit, on the diff-tree listing allFiles
getFilesInCommit(allFiles, pattern, cwd) ==
    SelectSeq(allFiles, LAMBDA file : file \in GlobSync(pattern, cwd))

\* getKeywordLines matching the keyword at the start of a line only
getKeywordLines_StartsWith(stdout, kw) ==
    SelectSeq(Split(stdout, NL),
              LAMBDA line : Len(line) >= Len(kw) /\ SubSeq(line, 1, Len(kw)) = kw)

\* lines 84-85 of getKeywordLines, on the stdout of git show
getKeywordLines(stdout, kw) ==
    SelectSeq(Split(stdout, NL), LAMBDA line : Includes(line, kw))

\* the forEach callback without the update of line 122
ProcessLine_NoUpdate(acc, file, date, line, dd) ==
    LET trimmedLine == Trim(line)
        last == acc.last
    IN  IF dd /\ file \in DOMAIN last /\ last[file] = trimmedLine
        THEN acc
        ELSE [results |-> Append(acc.results,
                                 [filename |-> file, date |-> date, line |-> trimmedLine]),
              last |-> last]

\* the forEach callback recording the untrimmed line when deduplicating
ProcessLine_RawLine(acc, file, date, line, dd) ==
    LET trimmedLine == Trim(line)
        last == acc.last
    IN  IF dd /\ file \in DOMAIN last /\ last[file] = trimmedLine
        THEN acc
        ELSE [results |-> Append(acc.results,
                                 [filename |-> file, date |-> date,
                                  line |-> IF dd THEN line ELSE trimmedLine]),
              last |-> IF dd
                       THEN [g \in (DOMAIN last) \cup {file} |->
                                IF g = file THEN trimmedLine ELSE last[g]]
                       ELSE last]

\* body of the forEach callback, lines 113-129; acc = [results, last]
ProcessLine(acc, file, date, line, dd) ==
    LET trimmedLine == Trim(line)
        last == acc.last
    IN  IF dd /\ file \in DOMAIN last /\ last[file] = trimmedLine
        THEN acc
        ELSE [results |-> Append(acc.results,
                                 [filename |-> file, date |-> date, line |-> trimmedLine]),
              last |-> IF dd
                       THEN [g \in (DOMAIN last) \cup {file} |->
                                IF g = file THEN trimmedLine ELSE last[g]]
                       ELSE last]

RECURSIVE ProcessLines(_, _, _, _, _)
\* lines.forEach(...), line 113
ProcessLines(acc, file, date, lines, dd) ==
    IF lines = <<>> THEN acc
    ELSE ProcessLines(ProcessLine(acc, file, date, Head(lines), dd),
                      file, date, Tail(lines), dd)

\* ------------------------------------------------------------ CSV and JSON
Quoted(s) == <<QUOTE>> \o s \o <<QUOTE>>

\* lines 147-151: one CSV row of a record
CsvLine(r) ==
    LET safeLine == ReplaceAll(r.line, QUOTE, <<QUOTE, QUOTE>>) IN
    Quoted(r.filename) \o <<COMMA>> \o Quoted(r.date) \o <<COMMA>> \o Quoted(safeLine)

\* 'Filename,Date,Line\n', line 146
Header == <<"F", "i", "l", "e", "n", "a", "m", "e", COMMA,
            "D", "a", "t", "e", COMMA, "L", "i", "n", "e", NL>>

\* lines 146-152: the CSV content
CsvContent(res) ==
    Header \o Join([i \in 1..Len(res) |-> CsvLine(res[i])], <<NL>>)

\* lines 159-165: records grouped by filename
Grouped(res) ==
    [f \in {res[i].filename : i \in 1..Len(res)} |->
        LET own == SelectSeq(res, LAMBDA r : r.filename = f) IN
        [i \in 1..Len(own) |-> [date |-> own[i].date, line |-> own[i].line]]]

\* ------------------------------------------------- version tracker: inputs
PackageName == "pkg"
Manifests == <<"package.json", "a/package.json", "b/package.json",
              "c/package.json">>   \* in git's listing order

Null == "<null>"
Undefined == "<undefined>"

\* a section of a parsed manifest: missing, or an object from names to values
NoSection == [has |-> FALSE, entries |-> [n \in {} |-> ""]]
EmptySection == [has |-> TRUE, entries |-> [n \in {} |-> ""]]
Section(v) == [has |-> TRUE, entries |-> [n \in {PackageName} |-> v]]

Manifest(d, dd) == [parses |-> TRUE, dependencies |-> d, devDependencies |-> dd]
Garbage == [parses |-> FALSE, dependencies |-> NoSection, devDependencies |-> NoSection]

\* what `git show <commit>:<manifest>` may print
ManifestContents ==
    { Garbage,
      Manifest(EmptySection, NoSection),
      Manifest(Section("1.0"), NoSection),
      Manifest(Section("2.0"), EmptySection),
      Manifest(NoSection, Section("1.0")),
      Manifest(Section("1.0"), Section("2.0")),
      Manifest(Section(""), NoSection),
      Manifest(Section(""), Section("2.0")) }

\* JavaScript truthiness of a looked-up value
Truthy(v) == v \notin {Null, Undefined, ""}

\* obj[name] on a section object
Lookup(section, name) ==
    IF name \in DOMAIN section.entries THEN section.entries[name] ELSE Undefined

\* extractPackageFromFile without the devDependencies lookup of lines 269-271
extractPackageFromFile_NoDev(fileContent, packageName) ==
    IF ~fileContent.parses THEN Null
    ELSE IF fileContent.dependencies.has
            /\ Truthy(Lookup(fileContent.dependencies, packageName))
         THEN Lookup(fileContent.dependencies, packageName)
    ELSE Undefined

\* lines 261-276
extractPackageFromFile(fileContent, packageName) ==
    IF ~fileContent.parses THEN Null
    ELSE IF fileContent.dependencies.has
            /\ Truthy(Lookup(fileContent.dependencies, packageName))
         THEN Lookup(fileContent.dependencies, packageName)
    ELSE IF fileContent.devDependencies.has
            /\ Truthy(Lookup(fileContent.devDependencies, packageName))
         THEN Lookup(fileContent.devDependencies, packageName)
    ELSE Undefined

RECURSIVE DedupeLoop(_, _, _)
\* the for loop of dedupeByVersion, lines 282-287
DedupeLoop(entries, deduped, seenVersions) ==
    IF entries = <<>> THEN deduped
    ELSE LET entry == Head(entries) IN
         IF entry.packageVersion \notin seenVersions
         THEN DedupeLoop(Tail(entries), Append(deduped, entry),
                         seenVersions \cup {entry.packageVersion})
         ELSE DedupeLoop(Tail(entries), deduped, seenVersions)

\* dedupeByVersion dropping an entry only when it repeats the previous one
dedupeByVersion_Adjacent(entries) ==
    LET kept ==
    SelectSeq([i \in 1..Len(entries) |->
                  [entry |-> entries[i],
                   keep |-> i = 1 \/ entries[i].packageVersion
                                       # entries[i - 1].packageVersion]],
              LAMBDA e : e.keep)
    IN  [i \in 1..Len(kept) |-> kept[i].entry]

\* lines 278-290
dedupeByVersion(entries) == DedupeLoop(entries, <<>>, {})

\* ------------------------------------------------------- initial values
VersionIdle ==
    /\ packageJSONFiles = <<>> /\ mIndex = 1 /\ vcommits = <<>> /\ vIndex = 1
    /\ outputVersionLog = <<>> /\ output = <<>> /\ outputFile = NotWritten
    /\ fetched = [manifest |-> 0, log |-> <<>>]

KeywordIdle ==
    /\ commits = <<>> /\ index = 1 /\ changedFiles = <<>> /\ files = <<>>
    /\ results = <<>> /\ lastRecordedLinePerFile = <<>> /\ observed = <<>>
    /\ csvFile = NotWritten /\ jsonFile = NotWritten

\* ------------------------------------------------- keyword tracker: steps
\* state after option parsing (lines 20-23), before the main function runs
InitKeyword ==
    /\ tool = "keyword" /\ pc = "getCommits" /\ exitCode = NoExit
    /\ lastEvent = "none"
    /\ filePattern \in Patterns /\ keyword \in Keywords /\ dedupe \in BOOLEAN
    /\ workingTree \in SUBSET Files
    /\ KeywordIdle
    /\ VersionIdle

\* where the commit loop goes once the files of commit i are exhausted
AfterCommit(i) == IF i + 1 > Len(commits) THEN "output" ELSE "commitLoop"

\* getCommits succeeds (lines 35-45, called at line 203)
GetCommits ==
    /\ tool = "keyword" /\ pc = "getCommits"
    /\ \E n \in 0..MaxCommits :
         /\ commits' = [i \in 1..n |-> [hash |-> i, date |-> DateOf(i)]]
         /\ pc' = IF n = 0 THEN "output" ELSE "commitLoop"
    /\ index' = 1
    /\ lastEvent' = "ok"
    /\ UNCHANGED vvars
    /\ UNCHANGED <<tool, exitCode, filePattern, keyword, dedupe, workingTree,
                   changedFiles, files, results, lastRecordedLinePerFile,
                   observed, csvFile, jsonFile>>

\* getCommits fails: process.exit(1) (lines 46-49)
GetCommitsFail ==
    /\ tool = "keyword" /\ pc = "getCommits"
    /\ pc' = "exit" /\ exitCode' = Exited(1)
    /\ lastEvent' = "logFailed"
    /\ UNCHANGED <<tool, kvars, vvars>>

\* line 108 with a successful git diff-tree
GetFilesInCommit ==
    /\ tool = "keyword" /\ pc = "commitLoop" /\ index <= Len(commits)
    /\ \E changed \in SUBSET Files :
         /\ changedFiles' = SeqOf(changed)
         /\ files' = getFilesInCommit(changedFiles', filePattern, workingTree)
    /\ IF files' = <<>>
       THEN index' = index + 1 /\ pc' = AfterCommit(index)
       ELSE index' = index /\ pc' = "fileLoop"
    /\ lastEvent' = "ok"
    /\ UNCHANGED vvars
    /\ UNCHANGED <<tool, exitCode, filePattern, keyword, dedupe, workingTree,
                   commits, results, lastRecordedLinePerFile, observed,
                   csvFile, jsonFile>>

\* getFilesInCommit ending the process in its catch, as getCommits does
GetFilesInCommitFail_Exit ==
    /\ tool = "keyword" /\ pc = "commitLoop" /\ index <= Len(commits)
    /\ pc' = "exit" /\ exitCode' = Exited(1)
    /\ lastEvent' = "filesQueryFailed"
    /\ UNCHANGED <<tool, kvars, vvars>>

\* line 108 with a failing git diff-tree: the catch returns [] (lines 68-71)
GetFilesInCommitFail ==
    /\ tool = "keyword" /\ pc = "commitLoop" /\ index <= Len(commits)
    /\ changedFiles' = <<>> /\ files' = <<>>
    /\ index' = index + 1 /\ pc' = AfterCommit(index)
    /\ lastEvent' = "filesQueryFailed"
    /\ UNCHANGED vvars
    /\ UNCHANGED <<tool, exitCode, filePattern, keyword, dedupe, workingTree,
                   commits, results, lastRecordedLinePerFile, observed,
                   csvFile, jsonFile>>

\* one iteration of the file loop (lines 110-131) whose git show succeeds
ProcessFile ==
    /\ tool = "keyword" /\ pc = "fileLoop" /\ files # <<>>
    /\ \E stdout \in ShowOutputs :
         LET file == Head(files)
             commit == commits[index]
             lines == getKeywordLines(stdout, keyword)
             acc == ProcessLines([results |-> results, last |-> lastRecordedLinePerFile],
                                 file, commit.date, lines, dedupe)
         IN  /\ results' = acc.results
             /\ lastRecordedLinePerFile' = acc.last
             /\ observed' = Append(observed, [file |-> file, commit |-> index,
                                              ok |-> TRUE, stdout |-> stdout])
    /\ files' = Tail(files)
    /\ IF files' = <<>>
       THEN index' = index + 1 /\ pc' = AfterCommit(index)
       ELSE index' = index /\ pc' = "fileLoop"
    /\ lastEvent' = "ok"
    /\ UNCHANGED vvars
    /\ UNCHANGED <<tool, exitCode, filePattern, keyword, dedupe, workingTree,
                   commits, changedFiles, csvFile, jsonFile>>

\* one iteration of the file loop whose git show fails: getKeywordLines
\* returns [] (lines 86-89) and the forEach is skipped (line 112)
ProcessFileFetchFail ==
    /\ tool = "keyword" /\ pc = "fileLoop" /\ files # <<>>
    /\ observed' = Append(observed, [file |-> Head(files), commit |-> index,
                                     ok |-> FALSE, stdout |-> <<>>])
    /\ files' = Tail(files)
    /\ IF files' = <<>>
       THEN index' = index + 1 /\ pc' = AfterCommit(index)
       ELSE index' = index /\ pc' = "fileLoop"
    /\ lastEvent' = "fetchFailed"
    /\ UNCHANGED vvars
    /\ UNCHANGED <<tool, exitCode, filePattern, keyword, dedupe, workingTree,
                   commits, changedFiles, results, lastRecordedLinePerFile,
                   csvFile, jsonFile>>

\* outputResults (lines 143-191, called at line 209), then the process ends
OutputResults ==
    /\ tool = "keyword" /\ pc = "output"
    /\ \E csvPath, jsonPath \in BOOLEAN :
         /\ csvFile' = IF csvPath THEN Written(CsvContent(results)) ELSE NotWritten
         /\ jsonFile' = IF jsonPath THEN Written(Grouped(results)) ELSE NotWritten
    /\ pc' = "done" /\ exitCode' = Exited(0)
    /\ lastEvent' = "ok"
    /\ UNCHANGED vvars
    /\ UNCHANGED <<tool, filePattern, keyword, dedupe, workingTree, commits,
                   index, changedFiles, files, results,
                   lastRecordedLinePerFile, observed>>

\* ------------------------------------------------- version tracker: steps
\* state after extractArgs (lines 218-234), before main runs
InitVersion ==
    /\ tool = "version" /\ pc = "discover" /\ exitCode = NoExit
    /\ lastEvent = "none"
    /\ filePattern = FileA /\ keyword = <<"k", "w">> /\ dedupe = FALSE
    /\ workingTree = {}
    /\ KeywordIdle
    /\ VersionIdle

\* findAllPackageJSONFiles resolves (lines 349-359, called at line 363)
FindAllPackageJSONFiles ==
    /\ tool = "version" /\ pc = "discover"
    /\ \E n \in 1..MaxManifests : packageJSONFiles' = SubSeq(Manifests, 1, n)
    /\ mIndex' = 1 /\ pc' = "lsFiles"
    /\ lastEvent' = "ok"
    /\ UNCHANGED <<tool, exitCode, kvars, vcommits, vIndex, outputVersionLog,
                   output, outputFile, fetched>>

\* findAllPackageJSONFiles rejects: main's promise rejects and node exits 1
FindAllPackageJSONFilesFail ==
    /\ tool = "version" /\ pc = "discover"
    /\ pc' = "exit" /\ exitCode' = Exited(1)
    /\ lastEvent' = "discoverFailed"
    /\ UNCHANGED <<tool, kvars, vvars>>

\* git ls-files --error-unmatch succeeds (line 298)
LsFiles ==
    /\ tool = "version" /\ pc = "lsFiles"
    /\ pc' = "gitLog"
    /\ lastEvent' = "ok"
    /\ UNCHANGED <<tool, exitCode, kvars, vvars>>

\* git ls-files --error-unmatch fails: process.exit(1) (lines 299-302)
LsFilesFail ==
    /\ tool = "version" /\ pc = "lsFiles"
    /\ pc' = "exit" /\ exitCode' = Exited(1)
    /\ lastEvent' = "lsFilesFailed"
    /\ UNCHANGED <<tool, kvars, vvars>>

\* git log prints at least one commit (lines 306-322)
GitLog ==
    /\ tool = "version" /\ pc = "gitLog"
    /\ \E n \in 1..MaxVCommits :
         vcommits' = [i \in 1..n |-> [hash |-> i, date |-> DateOf(i)]]
    /\ vIndex' = 1 /\ outputVersionLog' = <<>>
    /\ fetched' = [manifest |-> mIndex, log |-> <<>>]
    /\ pc' = "showLoop"
    /\ lastEvent' = "ok"
    /\ UNCHANGED <<tool, exitCode, kvars, packageJSONFiles, mIndex, output,
                   outputFile>>

\* git log prints nothing: process.exit(0) (lines 309-312)
GitLogEmpty ==
    /\ tool = "version" /\ pc = "gitLog"
    /\ pc' = "exit" /\ exitCode' = Exited(0)
    /\ lastEvent' = "noCommits"
    /\ UNCHANGED <<tool, kvars, vvars>>

\* git log fails: the outer catch calls process.exit(1) (lines 343-346)
GitLogFail ==
    /\ tool = "version" /\ pc = "gitLog"
    /\ pc' = "exit" /\ exitCode' = Exited(1)
    /\ lastEvent' = "logFailed"
    /\ UNCHANGED <<tool, kvars, vvars>>

\* what follows the body of the commit loop for the log newLog: the next
\* commit, or the end of findPackageVersion (line 342) and of the iteration
\* of main's loop (line 376)
AfterShow(newLog) ==
    IF vIndex < Len(vcommits)
    THEN /\ vIndex' = vIndex + 1 /\ pc' = "showLoop"
         /\ UNCHANGED <<output, mIndex>>
    ELSE /\ vIndex' = vIndex + 1
         /\ output' = Append(output, [packageJSON |-> packageJSONFiles[mIndex],
                                      history |-> dedupeByVersion(newLog)])
         /\ mIndex' = mIndex + 1
         /\ pc' = IF mIndex + 1 > Len(packageJSONFiles) THEN "save" ELSE "lsFiles"

\* one iteration of the commit loop whose git show succeeds (lines 325-335)
Show ==
    /\ tool = "version" /\ pc = "showLoop" /\ vIndex <= Len(vcommits)
    /\ \E fileContent \in ManifestContents :
         LET commit == vcommits[vIndex]
             packageVersion == extractPackageFromFile(fileContent, PackageName)
         IN  /\ outputVersionLog' =
                   IF Truthy(packageVersion)
                   THEN Append(outputVersionLog,
                               [hash |-> commit.hash, date |-> commit.date,
                                packageVersion |-> packageVersion])
                   ELSE outputVersionLog
             /\ fetched' = [fetched EXCEPT !.log =
                              Append(@, [ok |-> TRUE, content |-> fileContent])]
    /\ AfterShow(outputVersionLog')
    /\ lastEvent' = "ok"
    /\ UNCHANGED <<tool, exitCode, kvars, packageJSONFiles, vcommits, outputFile>>

\* one iteration of the commit loop whose git show fails (lines 336-338)
ShowFail ==
    /\ tool = "version" /\ pc = "showLoop" /\ vIndex <= Len(vcommits)
    /\ outputVersionLog' = outputVersionLog
    /\ fetched' = [fetched EXCEPT !.log =
                     Append(@, [ok |-> FALSE, content |-> Garbage])]
    /\ AfterShow(outputVersionLog')
    /\ lastEvent' = "fetchFailed"
    /\ UNCHANGED <<tool, exitCode, kvars, packageJSONFiles, vcommits, outputFile>>

\* saveOutputToFile resolves (lines 249-259, called at line 379)
SaveOutputToFile ==
    /\ tool = "version" /\ pc = "save"
    /\ outputFile' = Written(output)
    /\ pc' = "done" /\ exitCode' = Exited(0)
    /\ lastEvent' = "ok"
    /\ UNCHANGED <<tool, kvars, packageJSONFiles, mIndex, vcommits, vIndex,
                   outputVersionLog, output, fetched>>

\* saveOutputToFile rejects: main's promise rejects and node exits 1
SaveOutputToFileFail ==
    /\ tool = "version" /\ pc = "save"
    /\ pc' = "exit" /\ exitCode' = Exited(1)
    /\ lastEvent' = "saveFailed"
    /\ UNCHANGED <<tool, kvars, vvars>>

Init == InitKeyword \/ InitVersion

Next ==
    \/ GetCommits
    \/ GetCommitsFail
    \/ GetFilesInCommit
    \/ GetFilesInCommitFail
    \/ ProcessFile
    \/ ProcessFileFetchFail
    \/ OutputResults
    \/ FindAllPackageJSONFiles
    \/ FindAllPackageJSONFilesFail
    \/ LsFiles
    \/ LsFilesFail
    \/ GitLog
    \/ GitLogEmpty
    \/ GitLogFail
    \/ Show
    \/ ShowFail
    \/ SaveOutputToFile
    \/ SaveOutputToFileFail

Spec == Init /\ [][Next]_vars

\* ------------------------------------- free-standing result lists (CSV)
FieldChars == {QUOTE, COMMA, "a"}
RECURSIVE Texts(_)
\* all texts over FieldChars of length at most n
Texts(n) ==
    IF n = 0 THEN {<<>>}
    ELSE LET shorter == Texts(n - 1) IN
         shorter \cup {Append(t, c) : t \in shorter, c \in FieldChars}

CsvFilenames == {<<"f">>, <<"f", QUOTE, "g">>}
CsvDates == {<<"d">>, <<"d", QUOTE>>}
CsvRecords == [filename : CsvFilenames, date : CsvDates, line : Texts(MaxField)]

RECURSIVE Lists(_, _)
\* all sequences over set of length at most n
Lists(set, n) ==
    IF n = 0 THEN {<<>>}
    ELSE LET shorter == Lists(set, n - 1) IN
         shorter \cup {Append(l, x) : l \in shorter, x \in set}

\* outputResults called on an arbitrary result list
InitCsv ==
    /\ tool = "keyword" /\ pc = "output" /\ exitCode = NoExit
    /\ lastEvent = "none"
    /\ filePattern = FileA /\ keyword = <<"k", "w">> /\ dedupe = FALSE
    /\ workingTree = {}
    /\ commits = <<>> /\ index = 1 /\ changedFiles = <<>> /\ files = <<>>
    /\ results \in Lists(CsvRecords, MaxRows)
    /\ lastRecordedLinePerFile = <<>> /\ observed = <<>>
    /\ csvFile = NotWritten /\ jsonFile = NotWritten
    /\ VersionIdle

NextCsv == OutputResults

SpecCsv == InitCsv /\ [][NextCsv]_vars

\* ================================================================ claims
\* ------------------------------------------------ helpers of the formulas
\* the lines of a git show answer that contain the keyword, in order
MatchingLines(o) ==
    IF o.ok
    THEN LET ls == Split(o.stdout, NL) IN
         SelectSeq(ls, LAMBDA l : \E i \in 1..Len(l) :
                       i + Len(keyword) - 1 <= Len(l)
                       /\ \A j \in 1..Len(keyword) : l[i + j - 1] = keyword[j])
    ELSE <<>>

TrimmedMatching(o) ==
    LET ls == MatchingLines(o) IN [i \in 1..Len(ls) |-> Trim(ls[i])]

RECURSIVE SumMatching(_)
\* sum over the (commit, matched file) pairs of the number of keyword lines
SumMatching(log) ==
    IF log = <<>> THEN 0 ELSE Len(MatchingLines(Head(log))) + SumMatching(Tail(log))

RECURSIVE AllRecords(_)
\* one record per keyword line of every (commit, matched file) pair, in order
AllRecords(log) ==
    IF log = <<>> THEN <<>>
    ELSE LET o == Head(log)
             ts == TrimmedMatching(o)
         IN  [i \in 1..Len(ts) |->
                 [filename |-> o.file, date |-> commits[o.commit].date, line |-> ts[i]]]
             \o AllRecords(Tail(log))

RecordsOf(file) == SelectSeq(results, LAMBDA r : r.filename = file)

RecordsAt(file, c) ==
    SelectSeq(results, LAMBDA r : r.filename = file /\ r.date = commits[c].date)

CommitOfDate(d) == CHOOSE i \in 1..Len(commits) : commits[i].date = d

RECURSIVE IsSubseq(_, _)
\* s is an order-preserving subsequence of t
IsSubseq(s, t) ==
    IF s = <<>> THEN TRUE
    ELSE IF t = <<>> THEN FALSE
    ELSE IF Head(s) = Head(t) THEN IsSubseq(Tail(s), Tail(t))
    ELSE IsSubseq(s, Tail(t))

\* C1: without --dedupe the number of records equals the sum, over the
\* (commit, matched file) pairs in traversal order, of the number of lines
\* containing the keyword; each pair contributes exactly its own lines.
C1_CountWithoutDedupe ==
    (tool = "keyword" /\ ~dedupe) =>
        /\ Len(results) = SumMatching(observed)
        /\ \A k \in 1..Len(observed) :
             Len(RecordsAt(observed[k].file, observed[k].commit))
                = Len(MatchingLines(observed[k]))

C1_Witness ==
    /\ tool = "keyword" /\ ~dedupe /\ pc = "done"
    /\ Len(observed) >= 3 /\ Len(results) >= 4
    /\ \E k \in 1..Len(observed) :
         observed[k].ok /\ Len(MatchingLines(observed[k])) < Len(Split(observed[k].stdout, NL))

\* C2: with --dedupe no two consecutive records of one file carry the same
\* trimmed line, and a line value never recorded before for its file is
\* recorded at the commit where it is first extracted.
C2_DedupeAdjacent ==
    (tool = "keyword" /\ dedupe) =>
        /\ \A f \in Files :
             LET own == RecordsOf(f) IN
             \A i \in 1..(Len(own) - 1) : own[i].line # own[i + 1].line
        /\ \A k \in 1..Len(observed) :
             LET o == observed[k]
                 ts == TrimmedMatching(o)
             IN  \A i \in 1..Len(ts) :
                    (~\E n \in 1..Len(results) :
                          /\ results[n].filename = o.file
                          /\ results[n].line = ts[i]
                          /\ CommitOfDate(results[n].date) < o.commit)
                    => \E n \in 1..Len(results) :
                          /\ results[n].filename = o.file
                          /\ results[n].line = ts[i]
                          /\ results[n].date = commits[o.commit].date

C2_Witness ==
    /\ tool = "keyword" /\ dedupe /\ pc = "done"
    /\ Len(results) >= 2
    /\ Len(results) < SumMatching(observed)

\* C3: with --dedupe, a commit at which the keyword lines of a file are the
\* same sequence as at the previously processed commit touching that file
\* contributes no record for the file, whatever the number of keyword lines.
C3_OnlyChanges ==
    (tool = "keyword" /\ dedupe) =>
        \A j, k \in 1..Len(observed) :
            ( /\ j < k
              /\ observed[j].file = observed[k].file
              /\ observed[j].ok /\ observed[k].ok
              /\ \A m \in (j + 1)..(k - 1) : observed[m].file # observed[k].file
              /\ TrimmedMatching(observed[j]) = TrimmedMatching(observed[k]) )
            => RecordsAt(observed[k].file, observed[k].commit) = <<>>

\* C10: the result list with --dedupe is an order-preserving subsequence of
\* the result list the same git answers give without --dedupe.
C10_DedupeSubsequence ==
    (tool = "keyword" /\ dedupe) => IsSubseq(results, AllRecords(observed))

C10_Witness ==
    /\ tool = "keyword" /\ dedupe /\ pc = "done"
    /\ Len(results) >= 2
    /\ Len(results) < Len(AllRecords(observed))
    /\ \E n \in 1..Len(results) : results[n] # AllRecords(observed)[n]

\* C6: getFilesInCommit returns exactly the changed files whose path matches
\* the pattern, whatever the working directory holds.
C6_ResolverIgnoresWorkingTree ==
    [][(tool = "keyword" /\ pc = "commitLoop" /\ lastEvent' = "ok")
         => files' = SelectSeq(changedFiles', LAMBDA f : Minimatch(f, filePattern))]_vars

\* ------------------------------------------------------- version tracker
\* the history returned for the manifest whose git answers `fetched` holds
HistoryDone == output # <<>> /\ fetched.manifest = Len(output)
LastHistory == output[Len(output)].history

\* the values dependencies[package] and devDependencies[package] take in a
\* manifest revision
SectionValues(content) ==
    IF ~content.parses THEN {}
    ELSE {content.dependencies.entries[n] : n \in DOMAIN content.dependencies.entries}
         \cup {content.devDependencies.entries[n] :
                  n \in DOMAIN content.devDependencies.entries}

\* C4: a returned history holds no two records with the same packageVersion,
\* each kept record is the first of the traversal bearing its version, every
\* version of the traversal is kept, and kept records are in traversal order.
C4_VersionDedupe ==
    /\ \A m \in 1..Len(output) :
         LET h == output[m].history IN
         /\ \A i, j \in 1..Len(h) : i # j => h[i].packageVersion # h[j].packageVersion
         /\ \A i \in 1..(Len(h) - 1) : h[i].hash < h[i + 1].hash
    /\ HistoryDone =>
         /\ \A i \in 1..Len(LastHistory) :
              \E k \in 1..Len(outputVersionLog) :
                 /\ outputVersionLog[k] = LastHistory[i]
                 /\ \A j \in 1..(k - 1) :
                      outputVersionLog[j].packageVersion # LastHistory[i].packageVersion
         /\ \A k \in 1..Len(outputVersionLog) :
              \E i \in 1..Len(LastHistory) :
                 LastHistory[i].packageVersion = outputVersionLog[k].packageVersion

C4_Witness ==
    /\ HistoryDone
    /\ Len(outputVersionLog) = 3 /\ Len(LastHistory) = 2
    /\ outputVersionLog[1].packageVersion = outputVersionLog[3].packageVersion

\* C5: the history of a manifest holds a record for every value that
\* dependencies[package] or devDependencies[package] takes in a fetched
\* revision, tagged with a commit at which that value was observed.
C5_EveryValueRecorded ==
    HistoryDone =>
        \A k \in 1..Len(fetched.log) :
            fetched.log[k].ok =>
                \A v \in SectionValues(fetched.log[k].content) :
                    \E i \in 1..Len(LastHistory) :
                        /\ LastHistory[i].packageVersion = v
                        /\ fetched.log[LastHistory[i].hash].ok
                        /\ v \in SectionValues(fetched.log[LastHistory[i].hash].content)

\* the value the lookup of a manifest revision resolves to: the non-empty
\* dependencies[package], otherwise the non-empty devDependencies[package]
ResolvedValues(content) ==
    IF ~content.parses THEN {}
    ELSE LET d == {content.dependencies.entries[n] :
                      n \in DOMAIN content.dependencies.entries} \ {""}
             e == {content.devDependencies.entries[n] :
                      n \in DOMAIN content.devDependencies.entries} \ {""}
         IN  IF d # {} THEN d ELSE e

\* C5 (amended): the history of a manifest holds a record for every
\* non-empty value resolved from a fetched revision, dependencies[package]
\* taking precedence over devDependencies[package], tagged with a commit at
\* which that value was resolved.
C5_ResolvedValueRecorded ==
    HistoryDone =>
        \A k \in 1..Len(fetched.log) :
            fetched.log[k].ok =>
                \A v \in ResolvedValues(fetched.log[k].content) :
                    \E i \in 1..Len(LastHistory) :
                        /\ LastHistory[i].packageVersion = v
                        /\ fetched.log[LastHistory[i].hash].ok
                        /\ v \in ResolvedValues(fetched.log[LastHistory[i].hash].content)

C5_Witness ==
    /\ HistoryDone /\ Len(LastHistory) = 2
    /\ \E j, k \in 1..Len(fetched.log) :
         /\ fetched.log[j].ok /\ fetched.log[k].ok
         /\ fetched.log[j].content = Manifest(Section("1.0"), Section("2.0"))
         /\ fetched.log[k].content = Manifest(Section(""), Section("2.0"))

\* C9: a run of the version tracker that exits with code 0 has written the
\* output file, with one entry per discovered manifest in discovery order,
\* each holding a deduplicated history.
C9_ExitZeroHasOutput ==
    (tool = "version" /\ exitCode = Exited(0)) =>
        /\ outputFile.written
        /\ Len(outputFile.content) = Len(packageJSONFiles)
        /\ \A m \in 1..Len(outputFile.content) :
             /\ outputFile.content[m].packageJSON = packageJSONFiles[m]
             /\ \A i, j \in 1..Len(outputFile.content[m].history) :
                  i # j => outputFile.content[m].history[i].packageVersion
                             # outputFile.content[m].history[j].packageVersion

\* ----------------------------------------------------------- CSV reading
ParseError == [ok |-> FALSE, rows |-> <<>>]

RECURSIVE ReadCsv(_, _, _, _, _, _)
\* a reader of CSV whose fields are all double-quoted and in which a doubled
\* double-quote stands for one double-quote; st is "start" (a field must
\* open), "in" (inside a field) or "after" (a field has just closed)
ReadCsv(s, i, st, field, row, rows) ==
    IF i > Len(s)
    THEN IF st = "after" THEN [ok |-> TRUE, rows |-> Append(rows, Append(row, field))]
         ELSE IF st = "start" /\ row = <<>> THEN [ok |-> TRUE, rows |-> rows]
         ELSE ParseError
    ELSE IF st = "start"
    THEN IF s[i] = QUOTE THEN ReadCsv(s, i + 1, "in", <<>>, row, rows) ELSE ParseError
    ELSE IF st = "in"
    THEN IF s[i] # QUOTE THEN ReadCsv(s, i + 1, "in", Append(field, s[i]), row, rows)
         ELSE IF i < Len(s) /\ s[i + 1] = QUOTE
              THEN ReadCsv(s, i + 2, "in", Append(field, QUOTE), row, rows)
         ELSE ReadCsv(s, i + 1, "after", field, row, rows)
    ELSE IF s[i] = COMMA THEN ReadCsv(s, i + 1, "start", <<>>, Append(row, field), rows)
    ELSE IF s[i] = NL THEN ReadCsv(s, i + 1, "start", <<>>, <<>>, Append(rows, Append(row, field)))
    ELSE ParseError

\* the rows of a CSV text after its header line
ParseCsv(text) ==
    IF Len(text) < Len(Header) \/ SubSeq(text, 1, Len(Header)) # Header
    THEN ParseError
    ELSE ReadCsv(text, Len(Header) + 1, "start", <<>>, <<>>, <<>>)

Triples(res) == [i \in 1..Len(res) |-> <<res[i].filename, res[i].date, res[i].line>>]

\* C7: reading the CSV written by outputResults gives back the (filename,
\* date, line) triples of the result list, in order.
C7_CsvRoundTrip ==
    csvFile.written =>
        ParseCsv(csvFile.content) = [ok |-> TRUE, rows |-> Triples(results)]

\* -------------------------------------------------------- failure isolation
PerUnitFailures == {"filesQueryFailed", "fetchFailed"}

RECURSIVE ReplayKeyword(_, _)
\* the forEach of every git show answer of log that did not fail, in order
ReplayKeyword(log, acc) ==
    IF log = <<>> THEN acc
    ELSE LET o == Head(log) IN
         ReplayKeyword(Tail(log),
             IF o.ok
             THEN ProcessLines(acc, o.file, commits[o.commit].date,
                               getKeywordLines(o.stdout, keyword), dedupe)
             ELSE acc)

RECURSIVE ReplayVersion(_, _, _)
\* the version log of the git show answers of log that did not fail
ReplayVersion(log, k, acc) ==
    IF k > Len(log) THEN acc
    ELSE ReplayVersion(log, k + 1,
             IF log[k].ok /\ Truthy(extractPackageFromFile(log[k].content, PackageName))
             THEN Append(acc, [hash |-> vcommits[k].hash, date |-> vcommits[k].date,
                               packageVersion |->
                                   extractPackageFromFile(log[k].content, PackageName)])
             ELSE acc)

\* a step in which a changed-file query or a content fetch fails adds no
\* record, keeps the dedup state, does not end the run and moves on to the
\* next unit
FailureIsContained ==
    (lastEvent' \in PerUnitFailures) =>
        /\ results' = results
        /\ lastRecordedLinePerFile' = lastRecordedLinePerFile
        /\ outputVersionLog' = outputVersionLog
        /\ exitCode' = NoExit /\ pc' \notin {"exit", "done"}
        /\ tool = "keyword" => (index' = index + 1 \/ Len(files') = Len(files) - 1)
        /\ tool = "version" => vIndex' = vIndex + 1

\* the records are those of the units that did not fail, as if the failed
\* units were absent, and every commit has been visited when reporting starts
FailuresLeaveOthers ==
    /\ tool = "keyword" =>
         /\ [results |-> results, last |-> lastRecordedLinePerFile]
              = ReplayKeyword(observed, [results |-> <<>>, last |-> <<>>])
         /\ pc \in {"output", "done"} => index = Len(commits) + 1 /\ files = <<>>
    /\ (tool = "version" /\ HistoryDone) =>
         /\ Len(fetched.log) = Len(vcommits)
         /\ LastHistory = dedupeByVersion(ReplayVersion(fetched.log, 1, <<>>))
    /\ (tool = "version" /\ pc \in {"save", "done"}) =>
         Len(output) = Len(packageJSONFiles)

====
